---------------------------- MODULE Spec2Model ----------------------------
(***************************************************************************)
(* PowerOfTwoPairs (src/PowerOfTwoPairs.cpp): search for sets of integers  *)
(* with many pair-wise sums that are powers of two.                        *)
(*                                                                         *)
(* The module holds one state machine per component of the program:       *)
(*   SpecSet      number_set_t under add / reset calls                     *)
(*   SpecCombine  generate_combiners followed by combiner_t::combine       *)
(*   SpecImprove  improver_t::improve (the hill-climbing worklist)         *)
(*   SpecNumbers  simplify, count_pairs and generate_pairs of a number set *)
(*   SpecThreads  run_combiners_in_threads (workers, reporter, join,       *)
(*                reduction, simplify)                                     *)
(* All of them share one list of variables; a specification leaves the     *)
(* variables of the other components at their idle values.                 *)
(***************************************************************************)
EXTENDS Integers, Sequences, FiniteSets, TLC

VARIABLES
    \* ---- SpecSet: one number_set_t and the last call made on it
    ns,                 \* the number_set_t
    ns_call,            \* ghost: the last call and `numbers` before it
    \* ---- SpecCombine: generate_combiners + combiner_t::combine
    triplet_count,      \* triplets.size()
    number_set_size,    \* the set size K given to generate_combiners
    levels,             \* the sharding depth given to generate_combiners
    gc_pc,              \* position in generate_combiners / combine
    preset_indices,     \* generate_combiners' local preset_indices
    combiners,          \* vector<combiner_t> built by generate_combiners
    cur,                \* the combiner whose combine() is running
    indices,            \* combine()'s local indices
    gen,                \* generate_power_triplets: its position and locals
    call,               \* one call of a free function: arguments and result
    \* ---- SpecImprove: one improver_t
    improver,           \* the improver_t
    imp_calls,          \* number of improve() calls made so far
    \* ---- SpecThreads: run_combiners_in_threads
    hw,                 \* thread::hardware_concurrency()
    shards,             \* the combiners handed to run_combiners_in_threads
    next_to_do,         \* atomic<size_t> next_to_do
    workers,            \* worker thread -> its position and locals
    rep,                \* the reporter thread's position and locals
    coord,              \* the coordinator (caller) position and locals
    crashed,            \* the process died on an out-of-range read
    claimedBy,          \* ghost: shard -> workers whose fetch_add returned it
    mutators            \* ghost: shard -> workers that ran a combine step on it

setVars  == <<ns, ns_call>>
combVars == <<triplet_count, number_set_size, levels, gc_pc, preset_indices,
              combiners, cur, indices, gen, call>>
impVars  == <<improver, imp_calls>>
thrVars  == <<hw, shards, next_to_do, workers, rep, coord, crashed,
              claimedBy, mutators>>
vars     == <<setVars, combVars, impVars, thrVars>>

-----------------------------------------------------------------------------
(* Bounds of the model. *)

\* SpecSet: largest desired_size of the number set under test.
MaxDesiredSize == 3

\* Width, in bits, of the two's-complement integers of the model
\* (my_int_t is int64_t; the sums of the model stay far below 2^(IntBits-1)).
IntBits == 16

-----------------------------------------------------------------------------
(* Power arithmetic. *)

Min2(a, b) == IF a <= b THEN a ELSE b
Max2(a, b) == IF a >= b THEN a ELSE b

\* 1 << k
Pow2(k) == 2 ^ k

\* The bit pattern of a my_int_t, as a natural number.
ToUnsigned(x) == x % Pow2(IntBits)

\* Bit i of a bit pattern.
Bit(a, i) == (a \div Pow2(i)) % 2

\* a & b on bit patterns, bit by bit from bit 0 up.
BitAnd(a, b) ==
    LET upto[i \in 0 .. IntBits] ==
            IF i = 0 THEN 0
            ELSE upto[i - 1] + Bit(a, i - 1) * Bit(b, i - 1) * Pow2(i - 1)
    IN  upto[IntBits]

\* The bit patterns u, other than 0, with (u & (u - 1)) == 0: the test of
\* is_power_of_two, tabulated over every value of a my_int_t.
power_patterns ==
    { u \in 1 .. Pow2(IntBits) - 1 : BitAnd(u, ToUnsigned(u - 1)) = 0 }

\* bool is_power_of_two(my_int_t number)
\*   { return number != 0 && (number & (number - 1)) == 0; }
is_power_of_two(number) == ToUnsigned(number) \in power_patterns

\* The powers of two a my_int_t can hold: 2^k for k >= 0.
PowersOfTwo == { Pow2(k) : k \in 0 .. IntBits - 2 }

\* gen_powers_of_two(): for (pow = 0; pow < 10; ++pow) insert(1 << pow)
PowerCount == 10
powers_of_two == { Pow2(pow) : pow \in 0 .. PowerCount - 1 }

-----------------------------------------------------------------------------
(* power_triplet_t and number_set_t. *)

\* power_triplet_t(i, j, k): a = min, c = max, b = i + j + k - a - c.
power_triplet_t(i, j, k) ==
    LET a == Min2(i, Min2(j, k))
        c == Max2(i, Max2(j, k))
    IN  [a |-> a, b |-> i + j + k - a - c, c |-> c]

\* number_set_t(size): desired_size(size), improvement_count = 0, no numbers.
number_set_t(size) ==
    [desired_size |-> size, improvement_count |-> 0, numbers |-> {}]

\* void reset() { improvement_count = 0; numbers.clear(); }
reset(set) == [set EXCEPT !.improvement_count = 0, !.numbers = {}]

\* bool is_filled() const { return desired_size == numbers.size(); }
is_filled(set) == set.desired_size = Cardinality(set.numbers)

\* A plausible slip: the capacity is tested before the triplet, not per number.
add_unchecked(set, number) ==
    [set EXCEPT !.numbers = @ \cup {number}]

\* void add(const my_int_t number) { if (!is_filled()) numbers.insert(number); }
add(set, number) ==
    IF ~is_filled(set) THEN [set EXCEPT !.numbers = @ \cup {number}] ELSE set

\* The slip above, for a whole triplet: one capacity test, three inserts.
add_triplet_once(set, tri) ==
    IF ~is_filled(set)
    THEN add_unchecked(add_unchecked(add_unchecked(set, tri.a), tri.b), tri.c)
    ELSE set

\* void add(const power_triplet_t& tri) { add(tri.a); add(tri.b); add(tri.c); }
add_triplet(set, tri) == add(add(add(set, tri.a), tri.b), tri.c)

\* The unordered pairs of held numbers, each as (smaller, larger): the pairs
\* (*i1, *i2), i1 before i2, that count_pairs and generate_pairs walk through.
\* Both start from prev(numbers.end()), which needs a non-empty container.
NumberPairs(set) ==
    { p \in set.numbers \X set.numbers : p[1] < p[2] }

\* size_t count_pairs() const: count += 1 for each pair whose sum is a power
\* of two.
count_pairs(set) ==
    Cardinality({ p \in NumberPairs(set) : is_power_of_two(p[1] + p[2]) })

\* vector<power_pair_t> generate_pairs() const: the same pairs, materialised
\* as power_pair_t (a = min, b = max).
generate_pairs(set) ==
    { [a |-> p[1], b |-> p[2]] :
        p \in { q \in NumberPairs(set) : is_power_of_two(q[1] + q[2]) } }

-----------------------------------------------------------------------------
(* Idle values: what a specification gives the variables of the other      *)
(* components.                                                             *)

SetIdle ==
    /\ ns = number_set_t(0)
    /\ ns_call = [op |-> "none", before |-> {}]

CombIdle ==
    /\ triplet_count = 0
    /\ number_set_size = 0
    /\ levels = 0
    /\ gc_pc = "idle"
    /\ preset_indices = <<>>
    /\ combiners = <<>>
    /\ cur = 0
    /\ indices = <<>>
    /\ gen = [pc |-> "idle"]
    /\ call = [pc |-> "idle"]

ImpIdle ==
    /\ improver = [idle |-> TRUE]
    /\ imp_calls = 0

ThrIdle ==
    /\ hw = 0
    /\ shards = <<>>
    /\ next_to_do = 0
    /\ workers = <<>>
    /\ rep = [pc |-> "idle"]
    /\ coord = [pc |-> "idle"]
    /\ crashed = FALSE
    /\ claimedBy = <<>>
    /\ mutators = <<>>

-----------------------------------------------------------------------------
(* SpecSet: a number_set_t under any sequence of add(number), add(triplet) *)
(* and reset() calls.                                                      *)

\* The integers handed to add() and to power_triplet_t().
SetNumbers == {-3, -1, 3, 5, 11}

InitSet ==
    /\ ns \in { number_set_t(size) : size \in 0 .. MaxDesiredSize }
    /\ ns_call = [op |-> "new", before |-> {}]
    /\ CombIdle /\ ImpIdle /\ ThrIdle

\* number_set.add(number)
AddNumber ==
    \E number \in SetNumbers :
        /\ ns' = add(ns, number)
        /\ ns_call' = [op |-> "add", before |-> ns.numbers]
        /\ UNCHANGED <<combVars, impVars, thrVars>>

\* number_set.add(power_triplet_t(i, j, k))
AddTriplet ==
    \E i, j, k \in SetNumbers :
        /\ ns' = add_triplet(ns, power_triplet_t(i, j, k))
        /\ ns_call' = [op |-> "add_triplet", before |-> ns.numbers]
        /\ UNCHANGED <<combVars, impVars, thrVars>>

\* number_set.reset()
ResetSet ==
    /\ ns' = reset(ns)
    /\ ns_call' = [op |-> "reset", before |-> ns.numbers]
    /\ UNCHANGED <<combVars, impVars, thrVars>>

NextSet == AddNumber \/ AddTriplet \/ ResetSet

SpecSet == InitSet /\ [][NextSet]_vars

\* C10: after any sequence of add(integer) and add(triplet) calls the number
\* of held integers is at most desired_size, and an add call made on a set
\* that already holds desired_size integers leaves the set as it was.
C10_CapacityKept ==
    /\ Cardinality(ns.numbers) <= ns.desired_size
    /\ (/\ ns_call.op \in {"add", "add_triplet"}
        /\ Cardinality(ns_call.before) = ns.desired_size)
       => ns.numbers = ns_call.before

\* C10 witness: a triplet was added to a set with one free slot left, which
\* took the triplet's first new member only and is now full.
C10_Witness ==
    /\ ns_call.op = "add_triplet"
    /\ ns.desired_size >= 2
    /\ Cardinality(ns_call.before) = ns.desired_size - 1
    /\ Cardinality(ns.numbers) = ns.desired_size

-----------------------------------------------------------------------------
(* SpecCombine: generate_combiners(triplets, number_set_size, levels) and   *)
(* then combine() on each combiner it returned.  Index tuples are          *)
(* sequences whose position p holds the code's indices[p - 1]; the values  *)
(* are the code's (0-based) triplet indices.  The triplets are read only   *)
(* through these indices: each tuple combine() reads with is recorded in   *)
(* the combiner's `visited`.  The number set filled from the triplets and  *)
(* the improver fed with it are the state of SpecSet and SpecImprove.      *)

\* Width, in bits, of size_t in the model.
SizeBits == 16

\* A value as a size_t.
ToSizeT(x) == x % Pow2(SizeBits)

\* Largest triplets.size(), number_set_size and levels handed over.
MaxTriplets == 5
MaxSetSize  == 3
MaxLevels   == 3

\* combiner_t(tris, set_size, preset): combination_count = 0.
\* visited and returned are ghosts: the index tuples combine() read the
\* triplets with, and whether combine() has returned.
combiner_t(preset) ==
    [preset_indices |-> preset, combination_count |-> 0,
     visited |-> <<>>, returned |-> FALSE]

\* for (i = 0; i < levels; ++i) preset_indices.push_back(i);
FirstPreset(lv) == [p \in 1 .. lv |-> p - 1]

\* The tuple after `idx`: the code's loop over which_indice from the last
\* position down to, and not including, position `frozen - 1`, taking the
\* first position whose index can grow below `limit - (size - which - 1)`
\* (a size_t difference: it wraps around when the set size is the larger),
\* and resetting the `len - which - 1` positions to its right.
AdvanceTuple(idx, frozen, limit, size) ==
    LET can == { w \in frozen .. Len(idx) - 1 :
                    ToSizeT(idx[w + 1] + 1) < ToSizeT(limit - (size - w - 1)) }
    IN  IF can = {}
        THEN [more_combinations |-> FALSE, indices |-> idx]
        ELSE LET w == CHOOSE x \in can : \A y \in can : y <= x
             IN  [more_combinations |-> TRUE,
                  indices |-> [p \in 1 .. Len(idx) |->
                                 IF p - 1 < w THEN idx[p]
                                 ELSE idx[w + 1] + 1 + (p - 1 - w)]]

\* A variant that bounds a preset index by the preset's own length, as if
\* the preset were the whole combination.
NextPresetOwnLength(preset, n, size) ==
    AdvanceTuple(preset, 0, n, Len(preset))

\* generate_combiners, lines 505-518: the next preset_indices.
\*   for (which_indice = preset_indices.size() - 1; which_indice != size_t(-1); which_indice--)
\*     if (preset_indices[which_indice] + 1 < triplets.size() - (number_set_size - which_indice - 1))
NextPreset(preset, n, size) ==
    AdvanceTuple(preset, 0, n, size)

\* A variant whose bound lets the last index reach triplets.size().
NextIndicesOffByOne(idx, frozen, n, size) ==
    AdvanceTuple(idx, frozen, n + 1, size)

\* combine, lines 465-478: the next indices.
\*   for (which_indice = indices.size() - 1; which_indice != preset_indices.size() - 1; which_indice--)
\*     if (indices[which_indice] + 1 < triplets.size() - (number_set_size - which_indice - 1))
NextIndices(idx, frozen, n, size) ==
    AdvanceTuple(idx, frozen, n, size)

\* combine, lines 442-449: the first indices: the preset (or a single 0),
\* then consecutive indices up to number_set_size of them.
RECURSIVE FillConsecutive(_, _)
FillConsecutive(idx, size) ==
    IF Len(idx) >= size THEN idx
    ELSE FillConsecutive(Append(idx, idx[Len(idx)] + 1), size)

InitialIndices(preset, size) ==
    FillConsecutive(IF Len(preset) > 0 THEN preset ELSE <<0>>, size)

InitCombine ==
    /\ triplet_count \in 0 .. MaxTriplets
    /\ number_set_size \in 0 .. Min2(triplet_count, MaxSetSize)
    /\ levels \in 0 .. MaxLevels
    /\ gc_pc = "generate"
    /\ preset_indices = <<>>
    /\ combiners = <<>>
    /\ cur = 0
    /\ indices = <<>>
    /\ gen = [pc |-> "idle"]
    /\ call = [pc |-> "idle"]
    /\ SetIdle /\ ImpIdle /\ ThrIdle

\* generate_combiners, lines 486-498: clamp levels; with no level, return
\* the single combiner without preset; else set up the first preset.
GenerateBegin ==
    /\ gc_pc = "generate"
    /\ LET lv == Min2(levels, number_set_size)
       IN  /\ levels' = lv
           /\ IF lv <= 0
              THEN /\ combiners' = <<combiner_t(<<>>)>>
                   /\ preset_indices' = preset_indices
                   /\ gc_pc' = "run"
                   /\ cur' = 1
              ELSE /\ combiners' = combiners
                   /\ preset_indices' = FirstPreset(lv)
                   /\ gc_pc' = "generate_loop"
                   /\ cur' = cur
    /\ UNCHANGED <<triplet_count, number_set_size, indices>>
    /\ UNCHANGED <<setVars, impVars, thrVars, gen, call>>

\* generate_combiners, lines 501-519: one turn of the while loop: push a
\* combiner for the current preset, then advance the preset; return when
\* it cannot advance.
GenerateLoop ==
    /\ gc_pc = "generate_loop"
    /\ LET nx == NextPreset(preset_indices, triplet_count, number_set_size)
       IN  /\ combiners' = Append(combiners, combiner_t(preset_indices))
           /\ preset_indices' = nx.indices
           /\ gc_pc' = IF nx.more_combinations THEN "generate_loop" ELSE "run"
           /\ cur' = IF nx.more_combinations THEN cur ELSE 1
    /\ UNCHANGED <<triplet_count, number_set_size, levels, indices>>
    /\ UNCHANGED <<setVars, impVars, thrVars, gen, call>>

\* combine, lines 436-452, on the next combiner: return at once for a set
\* size of 0, else set up the first indices.
CombineBegin ==
    /\ gc_pc = "run"
    /\ cur \in 1 .. Len(combiners)
    /\ IF number_set_size <= 0
       THEN /\ combiners' = [combiners EXCEPT ![cur].returned = TRUE]
            /\ cur' = cur + 1
            /\ UNCHANGED <<gc_pc, indices>>
       ELSE /\ indices' = InitialIndices(combiners[cur].preset_indices,
                                         number_set_size)
            /\ gc_pc' = "combine"
            /\ UNCHANGED <<combiners, cur>>
    /\ UNCHANGED <<triplet_count, number_set_size, levels, preset_indices>>
    /\ UNCHANGED <<setVars, impVars, thrVars, gen, call>>

\* combine, lines 453-479: one turn of the while loop: count the
\* combination, read triplets[i] for each i of indices, advance the
\* indices; return when they cannot advance.
CombineLoop ==
    /\ gc_pc = "combine"
    /\ LET nx == NextIndices(indices, Len(combiners[cur].preset_indices),
                             triplet_count, number_set_size)
       IN  /\ combiners' = [combiners EXCEPT
                    ![cur].combination_count = @ + 1,
                    ![cur].visited = Append(@, indices),
                    ![cur].returned = ~nx.more_combinations]
           /\ indices' = nx.indices
           /\ gc_pc' = IF nx.more_combinations THEN "combine" ELSE "run"
           /\ cur' = IF nx.more_combinations THEN cur ELSE cur + 1
    /\ UNCHANGED <<triplet_count, number_set_size, levels, preset_indices>>
    /\ UNCHANGED <<setVars, impVars, thrVars, gen, call>>

NextCombine == GenerateBegin \/ GenerateLoop \/ CombineBegin \/ CombineLoop

SpecCombine == InitCombine /\ [][NextCombine]_vars

\* The strictly increasing tuples of `size` indices below n that start with
\* `prefix`.
AllTuples(n, size, prefix) ==
    { t \in [1 .. size -> 0 .. n - 1] :
        /\ \A p \in 1 .. size - 1 : t[p] < t[p + 1]
        /\ \A p \in 1 .. Len(prefix) : t[p] = prefix[p] }

LexLess(s, t) ==
    \E p \in 1 .. Len(s) : s[p] < t[p] /\ \A q \in 1 .. p - 1 : s[q] = t[q]

LexSorted(seq) == \A i \in 1 .. Len(seq) - 1 : LexLess(seq[i], seq[i + 1])

Range(seq) == { seq[i] : i \in DOMAIN seq }

\* n choose k, by Pascal's rule.
RECURSIVE Choose(_, _)
Choose(n, k) ==
    IF k = 0 THEN 1
    ELSE IF n = 0 THEN 0
    ELSE Choose(n - 1, k - 1) + Choose(n - 1, k)

RECURSIVE SumCombinationCount(_)
SumCombinationCount(cs) ==
    IF cs = <<>> THEN 0
    ELSE cs[1].combination_count + SumCombinationCount(Tail(cs))

\* generate_combiners has returned.
Generated == gc_pc \in {"run", "combine"}

\* Every combiner's combine() has returned.
AllReturned == gc_pc = "run" /\ cur > Len(combiners)

\* What combine() has visited on one combiner is a lexicographically
\* increasing run of tuples with the combiner's prefix, and all of them once
\* combine() has returned.
EnumeratesPrefix(c) ==
    LET all == AllTuples(triplet_count, number_set_size, c.preset_indices)
    IN  /\ c.combination_count = Len(c.visited)
        /\ LexSorted(c.visited)
        /\ Range(c.visited) \subseteq all
        /\ c.returned => Range(c.visited) = all

\* C1 as claimed: for every set size K <= n, what combine() visits are
\* exactly the strictly increasing K-tuples with the shard's prefix, each
\* once, in lexicographic order.
C1_AsClaimed ==
    \A s \in DOMAIN combiners : EnumeratesPrefix(combiners[s])

\* C1 as amended: for 1 <= K <= n, what combine() visits are exactly the
\* strictly increasing K-tuples of indices below n with the shard's prefix,
\* each once, in lexicographic order, and the loop stops after the last one;
\* for K = 0 combine() returns at once and visits nothing.
C1_LexEnumeration ==
    \A s \in DOMAIN combiners :
        IF number_set_size >= 1
        THEN EnumeratesPrefix(combiners[s])
        ELSE combiners[s].visited = <<>> /\ combiners[s].combination_count = 0

\* C1 witness: a shard with a frozen prefix shorter than the set size has
\* returned after visiting several tuples.
C1_Witness ==
    \E s \in DOMAIN combiners :
        /\ combiners[s].returned
        /\ Len(combiners[s].preset_indices) >= 1
        /\ Len(combiners[s].preset_indices) < number_set_size
        /\ Len(combiners[s].visited) >= 3

\* The presets of the combiners, in generation order.
Presets == [s \in DOMAIN combiners |-> combiners[s].preset_indices]

\* The places (shard, turn) where tuple t was visited.
VisitsOf(t) ==
    { x \in { <<s, i>> : s \in DOMAIN combiners, i \in 1 .. MaxTriplets * MaxTriplets } :
        /\ x[2] <= Len(combiners[x[1]].visited)
        /\ combiners[x[1]].visited[x[2]] = t }

\* Over all shards every K-combination was tried exactly once.
TriedOnce ==
    /\ SumCombinationCount(combiners) = Choose(triplet_count, number_set_size)
    /\ \A t \in AllTuples(triplet_count, number_set_size, <<>>) :
           Cardinality(VisitsOf(t)) = 1

\* C2 as claimed: one shard per strictly increasing index prefix of length
\* L = min(levels, K), a single shard without prefix for L = 0, and over all
\* shards n choose K combinations tried, each once.
C2_AsClaimed ==
    /\ Generated =>
         IF levels = 0
         THEN Presets = << <<>> >>
         ELSE /\ Range(Presets) = AllTuples(triplet_count, levels, <<>>)
              /\ Cardinality(Range(Presets)) = Len(Presets)
    /\ AllReturned => TriedOnce

\* C2 as amended: for 1 <= K <= n, generate_combiners creates, in
\* lexicographic order, exactly one shard per L-length prefix of a strictly
\* increasing K-tuple of indices below n (L = min(levels, K)), a single
\* shard without prefix for L = 0, and over all shards every K-combination
\* is tried by exactly one shard, once (n choose K in all); for K = 0 there
\* is a single shard and it tries nothing.
C2_ShardsPartition ==
    IF number_set_size >= 1
    THEN /\ Generated =>
              IF levels = 0
              THEN Presets = << <<>> >>
              ELSE /\ LexSorted(Presets)
                   /\ Range(Presets) =
                        { SubSeq(t, 1, levels) :
                            t \in AllTuples(triplet_count, number_set_size, <<>>) }
         /\ AllReturned => TriedOnce
    ELSE /\ Generated => Presets = << <<>> >>
         /\ AllReturned => SumCombinationCount(combiners) = 0

\* C2 witness: several shards with a prefix shorter than the set size have
\* all returned, with more triplets than the set size.
C2_Witness ==
    /\ AllReturned
    /\ Len(combiners) >= 3
    /\ levels >= 1
    /\ levels < number_set_size
    /\ number_set_size < triplet_count

-----------------------------------------------------------------------------
(* SpecCombineAny: the same two functions, handed any set size of 1 or     *)
(* more, larger than triplets.size() included (main passes both numbers on *)
(* from the command line).  triplets[i] with i >= triplets.size() is       *)
(* undefined: the process dies there, or goes on with what it read.  The   *)
(* size_t bound of the index loops then wraps around and the loops run on  *)
(* for as long as size_t lasts; the run is followed for MaxWild such turns. *)

MaxWild == 2

\* Whether a tuple holds an index that is no index of triplets.
OutOfRange(idx) == \E p \in DOMAIN idx : idx[p] >= triplet_count

\* The combiners made so far whose preset is out of range.
WildPresets == { s \in DOMAIN combiners : OutOfRange(combiners[s].preset_indices) }

\* The turns of a combine() that read triplets out of range.
WildReads(combiner) ==
    { t \in DOMAIN combiner.visited : OutOfRange(combiner.visited[t]) }

InitCombineAny ==
    /\ triplet_count \in 1 .. MaxTriplets
    /\ number_set_size \in 1 .. MaxSetSize
    /\ levels \in 0 .. MaxLevels
    /\ gc_pc = "generate"
    /\ preset_indices = <<>>
    /\ combiners = <<>>
    /\ cur = 0
    /\ indices = <<>>
    /\ gen = [pc |-> "idle"]
    /\ call = [pc |-> "idle"]
    /\ SetIdle /\ ImpIdle /\ ThrIdle

\* generate_combiners, lines 501-519: one turn of the while loop.
GenerateLoopAny ==
    /\ Cardinality(WildPresets) < MaxWild
    /\ GenerateLoop

\* combine, lines 453-479: one turn of the while loop; when it read
\* triplets out of range, the process went on.
CombineLoopAny ==
    /\ gc_pc = "combine"
    /\ Cardinality(WildReads(combiners[cur])) < MaxWild
    /\ CombineLoop

\* combine, lines 455-457: number_set.add(triplets[i]) with i out of range,
\* and the process dies.
CombineAbort ==
    /\ gc_pc = "combine"
    /\ OutOfRange(indices)
    /\ combiners' = [combiners EXCEPT
             ![cur].combination_count = @ + 1,
             ![cur].visited = Append(@, indices)]
    /\ gc_pc' = "aborted"
    /\ UNCHANGED <<triplet_count, number_set_size, levels, preset_indices,
                   cur, indices>>
    /\ UNCHANGED <<setVars, impVars, thrVars, gen, call>>

NextCombineAny ==
    \/ GenerateBegin
    \/ GenerateLoopAny
    \/ CombineBegin
    \/ CombineLoopAny
    \/ CombineAbort

SpecCombineAny == InitCombineAny /\ [][NextCombineAny]_vars

StrictlyIncreasing(idx) == \A p \in 1 .. Len(idx) - 1 : idx[p] < idx[p + 1]

\* C21: for every triplet count n >= 1, set size K >= 1 and depth, the
\* index tuples of generate_combiners and of combine() are strictly
\* increasing in every state, and every index combine() read the triplets
\* with is one of 0 .. n - 1.
C21_AsClaimed ==
    /\ StrictlyIncreasing(preset_indices)
    /\ StrictlyIncreasing(indices)
    /\ \A s \in DOMAIN combiners :
          \A t \in DOMAIN combiners[s].visited :
             /\ StrictlyIncreasing(combiners[s].visited[t])
             /\ \A p \in DOMAIN combiners[s].visited[t] :
                   combiners[s].visited[t][p] \in 0 .. triplet_count - 1

\* C21 witness: a combine() handed a set size above the number of triplets
\* has read the triplets with an index past the last one, and the process
\* died there.
C21_Witness ==
    /\ gc_pc = "aborted"
    /\ number_set_size > triplet_count
    /\ \E t \in DOMAIN combiners[cur].visited :
          \E p \in DOMAIN combiners[cur].visited[t] :
             combiners[cur].visited[t][p] >= triplet_count

-----------------------------------------------------------------------------
(* SpecImprove: one improver_t under a sequence of improve(number_set)      *)
(* calls.  A step is one turn of improve()'s while loop: pop the back of   *)
(* the worklist, update the best set, run improve_number_set on it.        *)
(* pair_count_per_numbers is cleared on entry of improve_number_set and so *)
(* is not kept between steps; worst_numbers is not cleared and is kept.    *)
(* The loops over powers_of_two and number_set.numbers walk unordered      *)
(* sets, whose order the code does not control: every order is taken.      *)

\* Largest set size of the improver under test, and improve() calls made.
MaxImproveSize  == 3
MaxImproveCalls == 2

\* The integers the starting sets are made of.
ImproveNumbers == {-2, 1, 3, 5, 6, 10}

\* improve_number_set, line 371: size_t worst_pair_count = 1000000;
WorstPairCountStart == 1000000

\* The integers of a set, ascending (the order a std::map is walked in).
RECURSIVE Ascending(_)
Ascending(S) ==
    IF S = {} THEN <<>>
    ELSE LET m == CHOOSE x \in S : \A y \in S : x <= y
         IN  <<m>> \o Ascending(S \ {m})

\* improve_number_set, lines 363-369: pair_count_per_numbers: for each
\* number that is in some pair of generate_pairs(), the pairs it is in.
pair_count_per_numbers(set) ==
    LET pairs == generate_pairs(set)
        keys  == { pr.a : pr \in pairs } \cup { pr.b : pr \in pairs }
    IN  [number \in keys |->
            Cardinality({ pr \in pairs : pr.a = number \/ pr.b = number })]

\* improve_number_set, lines 371-384: the least count of the map (or the
\* starting value when the map is empty).
worst_pair_count(set) ==
    LET counts == pair_count_per_numbers(set)
    IN  IF DOMAIN counts = {} THEN WorstPairCountStart
        ELSE CHOOSE c \in Range(counts) : \A d \in Range(counts) : c <= d

\* improve_number_set, lines 371-384: worst_numbers after the loop: the
\* keys with the least count, ascending; what it held before when the map
\* is empty (it is only resized inside the loop).
worst_numbers(set, before) ==
    LET counts == pair_count_per_numbers(set)
    IN  IF DOMAIN counts = {} THEN before
        ELSE Ascending({ number \in DOMAIN counts :
                            counts[number] = worst_pair_count(set) })

\* improve_number_set, lines 396-399: the pairs maybe_number would make with
\* the numbers other than worst_number.
maybe_pair_count(set, maybe_number, worst_number) ==
    Cardinality({ number \in set.numbers :
                    number # worst_number
                    /\ is_power_of_two(number + maybe_number) })

\* A variant that also takes a swap that keeps the pair count.
SwapImprovesOrTies(maybe_count, worst_count) == maybe_count >= worst_count

\* improve_number_set, line 401: if (maybe_pair_count > worst_pair_count)
SwapImproves(maybe_count, worst_count) == maybe_count > worst_count

\* A variant that forgets to erase worst_number from the copy.
improved_kept_worst(set, worst_number, maybe_number) ==
    [set EXCEPT !.numbers = @ \cup {maybe_number},
                !.improvement_count = @ + 1]

\* improve_number_set, lines 403-406: the improved copy.
improved(set, worst_number, maybe_number) ==
    [set EXCEPT !.numbers = (@ \ {worst_number}) \cup {maybe_number},
                !.improvement_count = @ + 1]

\* improve_number_set, lines 394-401, the loop over worst_numbers: index i is
\* the first of worst_numbers whose swap for maybe_number improves.
first_improving(set, worst, least, maybe_number, i) ==
    /\ SwapImproves(maybe_pair_count(set, maybe_number, worst[i]), least)
    /\ \A j \in 1 .. i - 1 :
           ~SwapImproves(maybe_pair_count(set, maybe_number, worst[j]), least)

\* improve_number_set, lines 386-413: the copies the call may push: for a
\* maybe_number = power - number not in the set, the first worst_number (in
\* the order of worst_numbers) whose swap improves.  The call pushes the one
\* of the first (power, number) the walk meets, and returns.
Children(set, worst) ==
    UNION { { improved(set, worst[i], maybe_number) :
                <<maybe_number, i>> \in
                    { c \in ({ power - number : power \in powers_of_two,
                                                number \in set.numbers }
                               \ set.numbers) \X (1 .. Len(worst)) :
                        first_improving(set, worst, least, c[1], c[2]) } } :
            least \in { worst_pair_count(set) } }

\* A variant that records the better pair count and keeps the old set.
update_best_count_only(imp, set) ==
    LET pair_count == count_pairs(set)
    IN  IF pair_count > imp.best_pair_count
        THEN [imp EXCEPT !.best_pair_count = pair_count]
        ELSE imp

\* A variant that takes any set that differs in pair count.
update_best_if_differs(imp, set) ==
    LET pair_count == count_pairs(set)
    IN  IF pair_count # imp.best_pair_count
        THEN [imp EXCEPT !.best_number_set = set,
                         !.best_pair_count = pair_count]
        ELSE imp

\* update_best_number_set, lines 275-283.
update_best_number_set(imp, set) ==
    LET pair_count == count_pairs(set)
    IN  IF pair_count > imp.best_pair_count
        THEN [imp EXCEPT !.best_number_set = set,
                         !.best_pair_count = pair_count]
        ELSE imp

\* improve_number_set, lines 407-408: the improver after a copy was pushed.
pushed(imp, kid) ==
    [imp EXCEPT !.improvement_count = @ + 1,
                !.number_sets_to_improve = Append(@, kid)]

\* improve_number_set, lines 361-414: the improver after the call, one per
\* copy it may push; without such a copy only worst_numbers changes.
improve_number_set(imp, set) ==
    UNION { UNION { IF kids = {}
                    THEN { [imp EXCEPT !.worst_numbers = worst] }
                    ELSE { pushed([imp EXCEPT !.worst_numbers = worst], kid) :
                             kid \in kids } :
                    kids \in { Children(set, worst) } } :
            worst \in { worst_numbers(set, imp.worst_numbers) } }

\* improver_t(set_size): best_number_set(set_size), best_pair_count = 0,
\* improvement_count = 0, empty vectors.  popped is a ghost: the set the
\* last turn of improve()'s loop took from the worklist.
improver_t(set_size) ==
    [best_number_set |-> number_set_t(set_size),
     best_pair_count |-> 0,
     improvement_count |-> 0,
     worst_numbers |-> <<>>,
     number_sets_to_improve |-> <<>>,
     popped |-> number_set_t(set_size)]

\* The sets handed to improve(): non-empty (combine() fills its set from at
\* least one triplet; count_pairs needs prev(end()) of a non-empty set), of
\* at most desired_size numbers.
StartSets(set_size) ==
    { [number_set_t(set_size) EXCEPT !.numbers = S] :
        S \in { T \in SUBSET ImproveNumbers :
                  T # {} /\ Cardinality(T) <= set_size } }

InitImprove ==
    /\ improver \in { improver_t(set_size) : set_size \in 1 .. MaxImproveSize }
    /\ imp_calls = 0
    /\ SetIdle /\ CombIdle /\ ThrIdle

\* improve(), line 258: push the given set (the loop then runs in
\* ImproveStep until the worklist is empty, when improve() returns).
ImproveCall ==
    /\ improver.number_sets_to_improve = <<>>
    /\ imp_calls < MaxImproveCalls
    /\ \E set \in StartSets(improver.best_number_set.desired_size) :
          improver' = [improver EXCEPT !.number_sets_to_improve = <<set>>]
    /\ imp_calls' = imp_calls + 1
    /\ UNCHANGED <<setVars, combVars, thrVars>>

\* improve(), lines 260-264: the improver after the back of the worklist was
\* taken and update_best_number_set has seen it.
popped_back(imp) ==
    LET todo == imp.number_sets_to_improve
    IN  update_best_number_set(
            [imp EXCEPT !.number_sets_to_improve = SubSeq(todo, 1, Len(todo) - 1),
                        !.popped = todo[Len(todo)]],
            todo[Len(todo)])

\* improve(), lines 260-266: one turn of the while loop.
ImproveStep ==
    /\ improver.number_sets_to_improve # <<>>
    /\ \E imp \in { popped_back(improver) } :
          improver' \in improve_number_set(imp, imp.popped)
    /\ UNCHANGED imp_calls
    /\ UNCHANGED <<setVars, combVars, thrVars>>

NextImprove == ImproveCall \/ ImproveStep

SpecImprove == InitImprove /\ [][NextImprove]_vars

\* improve() called once, on the improver as constructed.
ImproveFirstCall == imp_calls = 0 /\ ImproveCall

NextImproveOnce == ImproveFirstCall \/ ImproveStep

\* One improve() call, whose while loop keeps running while the worklist
\* holds a set.
FairSpecImprove ==
    InitImprove /\ [][NextImproveOnce]_vars /\ WF_vars(ImproveStep)

\* C8: across any sequence of improve() calls and of the steps inside them,
\* best_pair_count never decreases: every step leaves it equal to or greater
\* than it was.
C8_BestNeverDecreases ==
    [][improver.best_pair_count' >= improver.best_pair_count]_vars

\* C8 witness: in a second improve() call a set with fewer pairs than the
\* best was taken from the worklist, and the best set is one that an earlier
\* local step had produced.
C8_Witness ==
    /\ imp_calls = 2
    /\ improver.number_sets_to_improve = <<>>
    /\ improver.popped.numbers # {}
    /\ count_pairs(improver.popped) < improver.best_pair_count
    /\ improver.best_number_set.improvement_count >= 1

\* C9: improve() terminates for every starting set: a worklist that holds a
\* set becomes empty, after at most (desired_size choose 2) pushed copies
\* per call (each pushed copy has more pairs than the set it was made from).
C9_ImproveTerminates ==
    /\ [](improver.improvement_count
            <= imp_calls * Choose(improver.best_number_set.desired_size, 2))
    /\ (improver.number_sets_to_improve # <<>>)
          ~> (improver.number_sets_to_improve = <<>>)

\* C9 witness: improve() has returned (the worklist is empty) after a run of
\* at least two successive local improvements of its starting set.
C9_Witness ==
    /\ imp_calls = 1
    /\ improver.number_sets_to_improve = <<>>
    /\ improver.popped.improvement_count >= 2

\* The power pairs a member of a set takes part in, none included.
PairsWith(set, number) ==
    Cardinality({ other \in set.numbers \ {number} :
                    number + other \in PowersOfTwo })

\* The members of a set that take part in the fewest power pairs.
FewestPairs(set) ==
    { number \in set.numbers :
        \A other \in set.numbers :
            PairsWith(set, number) <= PairsWith(set, other) }

\* C18: after every local improvement step, worst_numbers holds exactly the
\* members of the set the step worked on that take part in the fewest power
\* pairs, a member that takes part in no pair counting as zero.
C18_AsClaimed ==
    improver.popped.numbers # {} =>
        Range(improver.worst_numbers) = FewestPairs(improver.popped)

\* C18 witness: a step worked on a set one member of which is in no power
\* pair, and worst_numbers holds other members, each of them in a pair.
C18_Witness ==
    /\ improver.popped.numbers # {}
    /\ improver.worst_numbers # <<>>
    /\ Range(improver.worst_numbers) \subseteq improver.popped.numbers
    /\ \A number \in Range(improver.worst_numbers) :
           PairsWith(improver.popped, number) >= 1
    /\ \E number \in improver.popped.numbers :
           PairsWith(improver.popped, number) = 0

\* C22: after every step of improve(), a best_pair_count above 0 is the
\* count_pairs() of best_number_set, and best_pair_count is at least the
\* count_pairs() of every set popped so far: it is at least that of the set
\* the last step popped and no step lowers it.
C22_BestIsCountOfBestSet ==
    /\ [](improver.best_pair_count > 0 =>
            improver.best_pair_count = count_pairs(improver.best_number_set))
    /\ [](improver.popped.numbers # {} =>
            improver.best_pair_count >= count_pairs(improver.popped))
    /\ [][improver'.best_pair_count >= improver.best_pair_count]_vars

\* C22 witness: in the middle of a second improve() call, the step popped a
\* set other than the best one, with fewer pairs, and the best pair count
\* is that of the best set kept from the first call.
C22_Witness ==
    /\ imp_calls = 2
    /\ improver.number_sets_to_improve # <<>>
    /\ improver.popped.numbers # {}
    /\ improver.popped.numbers # improver.best_number_set.numbers
    /\ count_pairs(improver.popped) < improver.best_pair_count
    /\ improver.best_pair_count = count_pairs(improver.best_number_set)
    /\ improver.best_pair_count >= 2

\* The back of a worklist.
Back(todo) == todo[Len(todo)]

\* A local improvement step that pushed a copy: the worklist lost its back
\* and gained the copy, and improvement_count went up by one.
StepPushed ==
    /\ improver.number_sets_to_improve # <<>>
    /\ improver'.improvement_count = improver.improvement_count + 1
    /\ Len(improver'.number_sets_to_improve)
          = Len(improver.number_sets_to_improve)

\* C19: the set a local improvement step pushes is its parent (the set the
\* step took from the worklist) with one member replaced by one integer that
\* the parent does not hold, so of the same size, and it has strictly more
\* power pairs than the parent.
C19_PushedIsBetterNeighbour ==
    [][StepPushed =>
          \E parent \in { Back(improver.number_sets_to_improve) } :
          \E kid \in { Back(improver'.number_sets_to_improve) } :
             /\ Cardinality(kid.numbers) = Cardinality(parent.numbers)
             /\ \E out \in parent.numbers :
                \E in \in kid.numbers \ parent.numbers :
                   kid.numbers = (parent.numbers \ {out}) \cup {in}
             /\ count_pairs(kid) > count_pairs(parent)]_vars

\* C19 witness: a step has just pushed a copy of the set it worked on, and
\* the copy has more power pairs than that set.
C19_Witness ==
    /\ improver.number_sets_to_improve # <<>>
    /\ Back(improver.number_sets_to_improve).improvement_count >= 1
    /\ Cardinality(Back(improver.number_sets_to_improve).numbers) = 3
    /\ count_pairs(Back(improver.number_sets_to_improve))
          > count_pairs(improver.popped)

-----------------------------------------------------------------------------
(* SpecThreads: run_combiners_in_threads(combiners).  The coordinator       *)
(* (the caller) creates hardware_concurrency() - 1 workers and one          *)
(* reporter, joins them in creation order, reduces the shards' results and  *)
(* simplifies the best set.  A thread runs from the moment it is created.   *)
(* A step of a worker is its fetch_add with the test that follows, or one   *)
(* turn of the while loop of the combine() it runs; what a turn does to the *)
(* shard is update_best_number_set on the sets the improver pops in that    *)
(* turn, which the shard's plan lists (combine() itself is SpecCombine, the *)
(* improver SpecImprove).  Shards are numbered from 0 as in the code;       *)
(* shard i is shards[i + 1].                                                *)

\* Largest thread::hardware_concurrency() and largest combiners.size().
MaxHW     == 3
MaxShards == 3

\* A filled number_set_t holding the given numbers.
filled_set(numbers) ==
    [number_set_t(Cardinality(numbers)) EXCEPT !.numbers = numbers]

\* What the combine() of a shard hands to update_best_number_set, turn by
\* turn.  Sets of four: three, then four pairs; four pairs (all even), then
\* three; three pairs.  Sets of one number have no pair.
PlanLowHigh == << filled_set({-2, -1, 6, 10}), filled_set({-3, -1, 3, 5}) >>
PlanHighLow == << filled_set({-6, -2, 6, 10}), filled_set({-2, -1, 6, 10}) >>
PlanLow     == << filled_set({-2, -1, 6, 10}) >>
PlanSingle  == << filled_set({-1}), filled_set({-5}) >>

PlanCycle == << PlanLowHigh, PlanHighLow, PlanLow >>

\* combiner_t as run_combiners_in_threads sees it: the set size, the
\* improver and combination_count; plan is what its combine() will visit.
shard_t(plan) ==
    [number_set_size |-> plan[1].desired_size,
     plan |-> plan,
     combination_count |-> 0,
     improver |-> improver_t(plan[1].desired_size)]

\* The one combiner generate_combiners makes for a set size of 0 (levels
\* = min(levels, 0) = 0, lines 488-494): no preset, and a combine() that
\* returns at once (line 438), so that it visits nothing.
zero_size_shard ==
    [number_set_size |-> 0,
     plan |-> <<>>,
     combination_count |-> 0,
     improver |-> improver_t(0)]

\* The vectors of combiners handed to run_combiners_in_threads: none, the
\* one of a set size of 0, or up to MaxShards shards, all of sets of one
\* number or all of sets of four, taken in turn from PlanCycle.
Workloads ==
    { <<>>, << zero_size_shard >> }
    \cup { [s \in 1 .. n |-> shard_t(PlanSingle)] : n \in 1 .. MaxShards }
    \cup { [s \in 1 .. n |-> shard_t(PlanCycle[((s + r) % Len(PlanCycle)) + 1])] :
             n \in 1 .. MaxShards, r \in 1 .. Len(PlanCycle) }

\* line 534: i < thread::hardware_concurrency() - 1, in unsigned arithmetic.
worker_count(hardware_concurrency) == ToSizeT(hardware_concurrency - 1)

\* A variant of fetch_add that leaves the counter as it was.
fetch_add_lost(counter) == counter

\* line 541: next_to_do.fetch_add(1): the value the counter holds afterwards
\* (the call returns the value it held before).
fetch_add(counter) == ToSizeT(counter + 1)

\* A variant of the worker's test that stops one shard early.
stops_one_early(which, size) == which + 1 >= size

\* line 542: if (which >= combiners.size()) break;
no_more_shards(which, size) == which >= size

\* A variant of join that does not wait for the thread.
join_returns_at_once(pc) == TRUE

\* line 601: threads[i]->join() returns once the thread has exited.
join_returns(pc) == pc = "exited"

\* A variant of the reduction's test that also takes a tie.
reduction_takes_ties(pair_count, best_pair_count) ==
    pair_count >= best_pair_count

\* line 608: if (combiner.improver.best_pair_count > best_pair_count)
reduction_takes(pair_count, best_pair_count) == pair_count > best_pair_count

\* line 562: the indices print_progress reads: from current_combiner_index -
\* thread_count (size_t arithmetic) up to current_combiner_index, excluded.
print_range(current_combiner_index, thread_count) ==
    ToSizeT(current_combiner_index - thread_count) ..
        (current_combiner_index - 1)

\* A variant of simplify()'s test that holds as soon as one number is even.
some_even(numbers) == \E number \in numbers : number % 2 = 0

\* line 195: all_of(numbers, number % 2 == 0); true of an empty set.
all_even(numbers) == \A number \in numbers : number % 2 = 0

\* lines 197-200: every number halved.
halved(numbers) == { number \div 2 : number \in numbers }

InitThreads ==
    /\ hw \in 1 .. MaxHW
    /\ shards \in Workloads
    /\ next_to_do = 0
    /\ workers = [w \in 1 .. worker_count(hw) |->
                    [pc |-> "unborn", which |-> 0, turn |-> 0]]
    /\ rep = [pc |-> "unborn", current_percent |-> 0, read |-> {}]
    /\ coord = [pc |-> "begin", i |-> 0,
                best_number_set |-> number_set_t(0), best_pair_count |-> 0]
    /\ crashed = FALSE
    /\ claimedBy = [s \in DOMAIN shards |-> {}]
    /\ mutators = [s \in DOMAIN shards |-> {}]
    /\ SetIdle /\ CombIdle /\ ImpIdle

\* lines 541-544: the worker takes the next index and leaves the loop when
\* it is past the last shard, or else enters combine() of that shard.
WorkerFetch(w) ==
    /\ ~crashed
    /\ w \in DOMAIN workers
    /\ workers[w].pc = "fetch"
    /\ next_to_do' = fetch_add(next_to_do)
    /\ IF no_more_shards(next_to_do, Len(shards))
       THEN /\ workers' = [workers EXCEPT ![w].pc = "exited",
                                          ![w].which = next_to_do]
            /\ UNCHANGED claimedBy
       ELSE /\ workers' = [workers EXCEPT ![w].pc = "combine",
                                          ![w].which = next_to_do,
                                          ![w].turn = 0]
            /\ claimedBy' = [claimedBy EXCEPT ![next_to_do + 1] = @ \cup {w}]
    /\ UNCHANGED <<hw, shards, rep, coord, crashed, mutators>>
    /\ UNCHANGED <<setVars, combVars, impVars>>

\* line 545, combine() lines 438-439 and 453-479: combine() on the worker's
\* shard returns at once for a set size of 0; else this is one turn of its
\* loop, and after the last turn combine() returns.  A worker whose
\* combine() returned is back at its fetch_add.
WorkerCombine(w) ==
    /\ ~crashed
    /\ w \in DOMAIN workers
    /\ workers[w].pc = "combine"
    /\ LET s    == workers[w].which + 1
           turn == workers[w].turn + 1
       IN  IF shards[s].number_set_size <= 0
           THEN /\ workers' = [workers EXCEPT ![w].pc = "fetch", ![w].turn = 0]
                /\ UNCHANGED <<shards, mutators>>
           ELSE /\ shards' = [shards EXCEPT
                     ![s].combination_count = @ + 1,
                     ![s].improver =
                         update_best_number_set(@, shards[s].plan[turn])]
                /\ mutators' = [mutators EXCEPT ![s] = @ \cup {w}]
                /\ workers' =
                     IF turn = Len(shards[s].plan)
                     THEN [workers EXCEPT ![w].pc = "fetch", ![w].turn = 0]
                     ELSE [workers EXCEPT ![w].turn = turn]
    /\ UNCHANGED <<hw, next_to_do, rep, coord, crashed, claimedBy>>
    /\ UNCHANGED <<setVars, combVars, impVars>>

\* lines 574-593: one turn of the reporter's loop up to print_progress:
\* sleep, load next_to_do, leave the loop when it is past the last shard,
\* go round again when the percentage is the one last printed (skip_count
\* starts from 0 in every turn, so it never reaches 20).
ReporterPoll ==
    /\ ~crashed
    /\ rep.pc = "poll"
    /\ LET which   == next_to_do
           percent == (100 * which) \div Len(shards)
       IN  IF which >= Len(shards)
           THEN rep' = [rep EXCEPT !.pc = "final", !.current_percent = 100]
           ELSE IF percent = rep.current_percent
                THEN rep' = rep
                ELSE rep' = [rep EXCEPT !.pc = "print",
                                        !.current_percent = percent]
    /\ UNCHANGED <<hw, shards, next_to_do, workers, coord, crashed,
                   claimedBy, mutators>>
    /\ UNCHANGED <<setVars, combVars, impVars>>

\* lines 561-569: print_progress, called at line 591 in the loop and at
\* line 594 after it: load next_to_do again and read combiners[i] over
\* print_range.  Reading combiners[i] for i >= combiners.size() is undefined:
\* the process goes on with what it read, or dies.
ReporterPrint ==
    /\ ~crashed
    /\ rep.pc \in {"print", "final"}
    /\ LET read == print_range(next_to_do, hw)
       IN  /\ rep' = [rep EXCEPT
                        !.pc = IF rep.pc = "print" THEN "poll" ELSE "exited",
                        !.read = read]
           /\ IF \E i \in read : i >= Len(shards)
              THEN crashed' \in BOOLEAN
              ELSE crashed' = FALSE
    /\ UNCHANGED <<hw, shards, next_to_do, workers, coord, claimedBy, mutators>>
    /\ UNCHANGED <<setVars, combVars, impVars>>

\* lines 527-528: no combiner: return number_set_t(0) at once.
CoordBegin ==
    /\ ~crashed
    /\ coord.pc = "begin"
    /\ coord' = [coord EXCEPT
                   !.pc = IF Len(shards) <= 0 THEN "done" ELSE "spawn"]
    /\ UNCHANGED <<hw, shards, next_to_do, workers, rep, crashed,
                   claimedBy, mutators>>
    /\ UNCHANGED <<setVars, combVars, impVars>>

\* lines 534-548 and 551-596: create the next worker, or, after the last
\* worker, the reporter.
CoordSpawn ==
    /\ ~crashed
    /\ coord.pc = "spawn"
    /\ IF coord.i < worker_count(hw)
       THEN /\ workers' = [workers EXCEPT ![coord.i + 1].pc = "fetch"]
            /\ coord' = [coord EXCEPT !.i = @ + 1]
            /\ UNCHANGED rep
       ELSE /\ rep' = [rep EXCEPT !.pc = "poll"]
            /\ coord' = [coord EXCEPT !.pc = "join", !.i = 0]
            /\ UNCHANGED workers
    /\ UNCHANGED <<hw, shards, next_to_do, crashed, claimedBy, mutators>>
    /\ UNCHANGED <<setVars, combVars, impVars>>

\* threads[i]: the workers in creation order, then the reporter.
thread_pc(i) ==
    IF i < worker_count(hw) THEN workers[i + 1].pc ELSE rep.pc

\* lines 599-605: join threads[i]; after the last join, the locals of the
\* reduction are set up.
CoordJoin ==
    /\ ~crashed
    /\ coord.pc = "join"
    /\ join_returns(thread_pc(coord.i))
    /\ IF coord.i + 1 < worker_count(hw) + 1
       THEN coord' = [coord EXCEPT !.i = @ + 1]
       ELSE coord' = [coord EXCEPT
                        !.pc = "reduce",
                        !.i = 0,
                        !.best_number_set = number_set_t(shards[1].number_set_size),
                        !.best_pair_count = 0]
    /\ UNCHANGED <<hw, shards, next_to_do, workers, rep, crashed,
                   claimedBy, mutators>>
    /\ UNCHANGED <<setVars, combVars, impVars>>

\* lines 606-613: one turn of the reduction loop.
CoordReduce ==
    /\ ~crashed
    /\ coord.pc = "reduce"
    /\ coord.i < Len(shards)
    /\ LET combiner == shards[coord.i + 1]
       IN  IF reduction_takes(combiner.improver.best_pair_count,
                              coord.best_pair_count)
           THEN coord' = [coord EXCEPT
                            !.i = @ + 1,
                            !.best_number_set = combiner.improver.best_number_set,
                            !.best_pair_count = combiner.improver.best_pair_count]
           ELSE coord' = [coord EXCEPT !.i = @ + 1]
    /\ UNCHANGED <<hw, shards, next_to_do, workers, rep, crashed,
                   claimedBy, mutators>>
    /\ UNCHANGED <<setVars, combVars, impVars>>

\* lines 615-616, simplify() lines 195-201: one test of simplify()'s loop,
\* with the halving when it holds; the set is returned when it fails.
CoordSimplify ==
    /\ ~crashed
    /\ \/ coord.pc = "reduce" /\ coord.i = Len(shards)
       \/ coord.pc = "simplify"
    /\ IF all_even(coord.best_number_set.numbers)
       THEN coord' = [coord EXCEPT
                        !.pc = "simplify",
                        !.best_number_set.numbers = halved(@)]
       ELSE coord' = [coord EXCEPT !.pc = "done"]
    /\ UNCHANGED <<hw, shards, next_to_do, workers, rep, crashed,
                   claimedBy, mutators>>
    /\ UNCHANGED <<setVars, combVars, impVars>>

Worker(w) == WorkerFetch(w) \/ WorkerCombine(w)

Reporter == ReporterPoll \/ ReporterPrint

Coordinator ==
    CoordBegin \/ CoordSpawn \/ CoordJoin \/ CoordReduce \/ CoordSimplify

NextThreads ==
    \/ \E w \in 1 .. MaxHW : WorkerFetch(w)
    \/ \E w \in 1 .. MaxHW : WorkerCombine(w)
    \/ ReporterPoll
    \/ ReporterPrint
    \/ CoordBegin
    \/ CoordSpawn
    \/ CoordJoin
    \/ CoordReduce
    \/ CoordSimplify

SpecThreads == InitThreads /\ [][NextThreads]_vars

\* Every thread that can take a step eventually takes one.
FairSpecThreads ==
    /\ SpecThreads
    /\ \A w \in 1 .. MaxHW : WF_vars(Worker(w))
    /\ WF_vars(Reporter)
    /\ WF_vars(Coordinator)

\* Shard s was run to the end of its plan.
Processed(s) == shards[s].combination_count = Len(shards[s].plan)

\* Every created thread has exited.
AllExited ==
    /\ \A w \in DOMAIN workers : workers[w].pc = "exited"
    /\ rep.pc = "exited"

\* C3: under every interleaving each shard index below the shard count is
\* claimed by at most one worker while the workers run and by exactly one
\* once they have all left their loops; a worker has run the combine() of
\* every shard it claimed to the end before it is anywhere but inside the
\* combine() of the shard it claimed last; and only the claimer of a shard
\* ever changes the shard.
C3_OneWorkerPerShard ==
    \A s \in DOMAIN shards :
        /\ Cardinality(claimedBy[s]) <= 1
        /\ mutators[s] \subseteq claimedBy[s]
        /\ \A w \in claimedBy[s] :
              \/ workers[w].pc = "combine" /\ workers[w].which = s - 1
              \/ Processed(s)
        /\ (workers # <<>> /\ \A w \in DOMAIN workers : workers[w].pc = "exited")
              => Cardinality(claimedBy[s]) = 1

\* C3 witness: two workers have left their loops after one of them ran two
\* shards and the other the shard between them.
C3_Witness ==
    /\ Len(shards) = 3
    /\ \A w \in DOMAIN workers : workers[w].pc = "exited"
    /\ \E w1, w2 \in DOMAIN workers :
          /\ w1 # w2
          /\ mutators[1] = {w1}
          /\ mutators[2] = {w2}
          /\ mutators[3] = {w1}

\* The coordinator is past its joins with every shard processed and every
\* thread it created gone (with no combiner it creates none and returns).
AllJoined ==
    /\ coord.pc \in {"reduce", "simplify", "done"}
    /\ Len(shards) > 0 =>
          /\ AllExited
          /\ \A s \in DOMAIN shards :
                Cardinality(claimedBy[s]) = 1 /\ Processed(s)

\* C4 as claimed: for every hardware_concurrency(), under fair scheduling of
\* the threads, run_combiners_in_threads reaches the state where every shard
\* was claimed and processed, the workers and the reporter have exited and
\* the coordinator has joined them.
C4_AsClaimed == <>AllJoined

\* C4 witness: with hardware_concurrency() = 1 no worker exists, the
\* reporter polls a counter that nobody advances and the coordinator waits
\* in its first join.
C4_Witness ==
    /\ hw = 1
    /\ Len(shards) > 0
    /\ workers = <<>>
    /\ coord.pc = "join"
    /\ rep.pc = "poll"
    /\ next_to_do = 0

\* C5: whenever the coordinator is in its reduction (or past it, in
\* simplify), every worker and the reporter have exited and every shard was
\* run to its end: the reduction never reads a shard a worker still runs.
C5_ReductionAfterJoin ==
    coord.pc \in {"reduce", "simplify"} =>
        /\ AllExited
        /\ \A s \in DOMAIN shards : Processed(s)
        /\ \A w \in DOMAIN workers : no_more_shards(workers[w].which, Len(shards))

\* C5 witness: the reduction has read a shard, after two workers ran
\* shards.
C5_Witness ==
    /\ coord.pc = "reduce"
    /\ coord.i >= 1
    /\ \E s, t \in DOMAIN shards : mutators[s] # {} /\ mutators[t] # {}
                                   /\ mutators[s] # mutators[t]

\* The largest best_pair_count of the shards.
MaxShardCount ==
    CHOOSE m \in { shards[s].improver.best_pair_count : s \in DOMAIN shards } :
        \A s \in DOMAIN shards : shards[s].improver.best_pair_count <= m

\* The first shard, in generation order, that holds MaxShardCount.
FirstBestShard ==
    CHOOSE s \in DOMAIN shards :
        /\ shards[s].improver.best_pair_count = MaxShardCount
        /\ \A t \in 1 .. s - 1 :
              shards[t].improver.best_pair_count < MaxShardCount

\* The reduction loop has ended and simplify() has not begun.
Reduced == coord.pc = "reduce" /\ coord.i = Len(shards)

\* C6: when the reduction ends, before simplify(), the coordinator holds the
\* largest best_pair_count of the shards and the best set of the first
\* shard, in generation order, that has it.
C6_FirstMaximum ==
    Reduced =>
        /\ coord.best_pair_count = MaxShardCount
        /\ coord.best_number_set = shards[FirstBestShard].improver.best_number_set

\* C6 witness: the reduction has ended with two shards tied for the maximum
\* on different best sets, after a first shard with less.
C6_Witness ==
    /\ Reduced
    /\ \E s, t \in DOMAIN shards :
          /\ 1 < s /\ s < t
          /\ shards[s].improver.best_pair_count = MaxShardCount
          /\ shards[t].improver.best_pair_count = MaxShardCount
          /\ shards[s].improver.best_number_set
                # shards[t].improver.best_number_set
          /\ shards[1].improver.best_pair_count < MaxShardCount
          /\ shards[1].improver.best_pair_count > 0

\* The largest count of pairs of the sets in the shards' plans: what the
\* triplets, the set size and the sharding depth fix, whoever runs what.
BestOfPlans ==
    LET counts == UNION { { count_pairs(shards[s].plan[i]) :
                                i \in DOMAIN shards[s].plan } :
                            s \in DOMAIN shards }
    IN  CHOOSE m \in counts : \A c \in counts : c <= m

\* C7: the set run_combiners_in_threads returns has the largest count of
\* pairs of the sets of the plans, for any hardware_concurrency() and any
\* order in which the workers took the shards.
C7_SamePairCount ==
    (coord.pc = "done" /\ Len(shards) > 0) =>
        /\ coord.best_pair_count = BestOfPlans
        /\ count_pairs(coord.best_number_set) = BestOfPlans

\* C7 witness: the set was returned after the second worker created ran
\* the first shard and the first worker the second shard.
C7_Witness ==
    /\ coord.pc = "done"
    /\ Len(shards) >= 2
    /\ mutators[1] = {2}
    /\ mutators[2] = {1}

\* The search was given a set size of 0: generate_combiners made its one
\* combiner without preset.
ZeroSizeSearch == shards = << zero_size_shard >>

\* C11 as claimed, for a set size of 0 (and at least one worker, the
\* process living on): the search completes and returns an empty set.
C11_AsClaimed ==
    (ZeroSizeSearch /\ hw >= 2) =>
        <>(crashed \/ (coord.pc = "done" /\ coord.best_number_set.numbers = {}))

\* C11 witness: with a set size of 0 every thread was joined, the reduction
\* kept the empty set, and simplify() is in its loop on it: all_of holds of
\* no number, the halved set is empty again.
C11_Witness ==
    /\ ZeroSizeSearch
    /\ AllExited
    /\ coord.pc = "simplify"
    /\ coord.best_number_set.numbers = {}
    /\ shards[1].combination_count = 0

-----------------------------------------------------------------------------
(* SpecNumbers: simplify(), count_pairs() and generate_pairs() called on a  *)
(* number set, held in ns; ns_call holds the call in progress or the last   *)
(* one made and what it returned.  A step of simplify() is one test of its  *)
(* while loop with the halving that follows when it holds.  count_pairs()   *)
(* and generate_pairs() take prev(numbers.end()), which is undefined on an  *)
(* empty container: the call goes on as if prev(end()) were end() and finds *)
(* no pair, or the process dies on the iterator check.                      *)

\* Most numbers in a set under test, and most simplify() calls made on it.
MaxNumbersSize   == 3
MaxSimplifyCalls == 2

\* The integers the sets under test are made of.
NumbersPool == {-4, -2, 0, 1, 4, 6, 12}

\* No call made yet on the set.
fresh_call ==
    [op |-> "new", before |-> {}, turned |-> FALSE, calls |-> 0,
     count |-> 0, pairs |-> {}]

InitNumbers ==
    /\ ns \in { filled_set(S) :
                  S \in { T \in SUBSET NumbersPool :
                            Cardinality(T) <= MaxNumbersSize } }
    /\ ns_call = fresh_call
    /\ CombIdle /\ ImpIdle /\ ThrIdle

\* No call runs on the set and the process lives.
BetweenCalls == ns_call.op \in {"new", "simplify_returned", "counted", "generated"}

\* number_set.simplify() is called (line 193).
SimplifyCall ==
    /\ BetweenCalls
    /\ ns_call.calls < MaxSimplifyCalls
    /\ ns_call' = [ns_call EXCEPT !.op = "simplify",
                                  !.before = ns.numbers,
                                  !.turned = FALSE]
    /\ UNCHANGED ns
    /\ UNCHANGED <<combVars, impVars, thrVars>>

\* simplify(), lines 195-201: one test of the while loop; the numbers are
\* halved when it holds, simplify() returns when it fails.
SimplifyTurn ==
    /\ ns_call.op = "simplify"
    /\ IF all_even(ns.numbers)
       THEN /\ ns' = [ns EXCEPT !.numbers = halved(@)]
            /\ ns_call' = [ns_call EXCEPT !.turned = TRUE]
       ELSE /\ ns_call' = [ns_call EXCEPT !.op = "simplify_returned",
                                          !.calls = @ + 1]
            /\ UNCHANGED ns
    /\ UNCHANGED <<combVars, impVars, thrVars>>

\* lines 207-208 / 228-229: prev(numbers.end()) of an empty container.
prev_of_end_undefined(set) == set.numbers = {}

\* number_set.count_pairs() is called (lines 204-222).
CountPairs ==
    /\ BetweenCalls
    /\ \/ ns_call' = [ns_call EXCEPT !.op = "counted",
                                     !.count = count_pairs(ns)]
       \/ /\ prev_of_end_undefined(ns)
          /\ ns_call' = [ns_call EXCEPT !.op = "aborted"]
    /\ UNCHANGED ns
    /\ UNCHANGED <<combVars, impVars, thrVars>>

\* number_set.generate_pairs() is called (lines 224-243).
GeneratePairs ==
    /\ BetweenCalls
    /\ \/ ns_call' = [ns_call EXCEPT !.op = "generated",
                                     !.pairs = generate_pairs(ns)]
       \/ /\ prev_of_end_undefined(ns)
          /\ ns_call' = [ns_call EXCEPT !.op = "aborted"]
    /\ UNCHANGED ns
    /\ UNCHANGED <<combVars, impVars, thrVars>>

NextNumbers == SimplifyCall \/ SimplifyTurn \/ CountPairs \/ GeneratePairs

SpecNumbers == InitNumbers /\ [][NextNumbers]_vars

\* A simplify() that was called keeps running.
FairSpecNumbers == SpecNumbers /\ WF_vars(SimplifyTurn)

\* C12 as claimed: simplify() terminates for every number set: a call that
\* was made returns.
C12_AsClaimed ==
    (ns_call.op = "simplify") ~> (ns_call.op = "simplify_returned")

\* C12 witness: simplify() was called on a set without a number other than
\* 0 and has halved it into the same set.
C12_Witness ==
    /\ ns_call.op = "simplify"
    /\ ns_call.turned
    /\ ns.numbers = ns_call.before
    /\ ns.numbers \subseteq {0}

\* The set as it was when the simplify() call was made.
SetBefore == [ns EXCEPT !.numbers = ns_call.before]

\* C13: whenever simplify() returns, the set has as many pairs
\* (count_pairs) and as many numbers as when the call was made, and a second
\* simplify() call returns the set exactly as the first call left it,
\* without a halving.
C13_SimplifyKeepsPairs ==
    ns_call.op = "simplify_returned" =>
        /\ count_pairs(ns) = count_pairs(SetBefore)
        /\ Cardinality(ns.numbers) = Cardinality(ns_call.before)
        /\ ns_call.calls >= 2 => (ns.numbers = ns_call.before /\ ~ns_call.turned)

\* C13 witness: a second simplify() call has returned on a set of at least
\* two numbers with a pair; the first call had halved it.
C13_Witness ==
    /\ ns_call.op = "simplify_returned"
    /\ ns_call.calls = 2
    /\ Cardinality(ns.numbers) >= 2
    /\ count_pairs(ns) >= 1
    /\ \E number \in ns.numbers : 2 * number \in NumbersPool
    /\ ns.numbers \cap NumbersPool = {}

\* The number of unordered pairs of distinct numbers whose sum is a power of
\* two.
PowerPairCount(numbers) ==
    Cardinality({ pr \in SUBSET numbers :
                    \E a, b \in pr : /\ a # b
                                     /\ pr = {a, b}
                                     /\ a + b \in PowersOfTwo })

\* What the last count_pairs() and generate_pairs() returned is the number
\* of unordered pairs of distinct held numbers whose sum is a power of two.
CountsAgree ==
    /\ ns_call.op = "counted" => ns_call.count = PowerPairCount(ns.numbers)
    /\ ns_call.op = "generated" =>
          /\ Cardinality(ns_call.pairs) = PowerPairCount(ns.numbers)
          /\ Cardinality(ns_call.pairs) = count_pairs(ns)

\* C14 as claimed: for every number set count_pairs() and generate_pairs()
\* return, and what they return is the number of unordered pairs of distinct
\* held numbers whose sum is a power of two.
C14_AsClaimed == ns_call.op # "aborted" /\ CountsAgree

\* C14 witness: a call on the empty set ended the process at
\* prev(numbers.end()).
C14_Witness ==
    /\ ns_call.op = "aborted"
    /\ ns.numbers = {}


-----------------------------------------------------------------------------
(* generate_power_triplets: the while loop that widens delta until enough    *)
(* triplets are found.  powers_of_two is an unordered_set, so the order in   *)
(* which one round of the loop visits its members is any order.              *)

MaxRequested == 4

\* the mutant of set_too_small: stops asking for triplets one triplet early
set_too_small_by_two(size, count) == size + 1 < count

\* while (triplet_set.size() < triplet_count)
set_too_small(size, count) == size < count

\* `for (my_int_t k = -delta; k <= delta; ++k)' reads the INNER delta, the
\* one that shadows the loop counter: for the negative one the range is empty.
k_range(inner) == (-inner)..inner

\* the triplets that one member p2 of powers_of_two adds for one signed delta
found_for(inner, p2) ==
    LET i == inner
        j == p2 - i
    IN  IF i = j THEN {}
        ELSE { power_triplet_t(i, j, k) :
                 k \in { kk \in k_range(inner) :
                           /\ kk # 0 /\ kk # i /\ kk # j
                           /\ is_power_of_two(i + kk)
                           /\ is_power_of_two(j + kk) } }

\* my_int_t deltas[] = { delta, -delta }; for (my_int_t delta : deltas)
found(d, p2) == found_for(d, p2) \cup found_for(-d, p2)

\* operator<=> of power_triplet_t: member-wise, in the order a, b, c
triplet_less(t, u) ==
    \/ t.a < u.a
    \/ t.a = u.a /\ t.b < u.b
    \/ t.a = u.a /\ t.b = u.b /\ t.c < u.c

RECURSIVE in_set_order(_)
\* the walk of a set<power_triplet_t>, smallest first
in_set_order(S) ==
    IF S = {} THEN <<>>
    ELSE LET least == CHOOSE t \in S : \A u \in S \ {t} : triplet_less(t, u)
         IN  << least >> \o in_set_order(S \ {least})

\* rotate(begin, begin + size * 3 / 5, end)
rotate(seq) ==
    LET mid == (Len(seq) * 3) \div 5
    IN  SubSeq(seq, mid + 1, Len(seq)) \o SubSeq(seq, 1, mid)

InitTriplets ==
    /\ \E count \in 0..MaxRequested :
         gen = [pc |-> "while", triplet_count |-> count, delta |-> 0,
                to_visit |-> {}, triplet_set |-> {}, triplets |-> <<>>]
    /\ triplet_count = 0
    /\ number_set_size = 0
    /\ levels = 0
    /\ gc_pc = "idle"
    /\ preset_indices = <<>>
    /\ combiners = <<>>
    /\ cur = 0
    /\ indices = <<>>
    /\ call = [pc |-> "idle"]
    /\ SetIdle /\ ImpIdle /\ ThrIdle

TripletsIdle ==
    UNCHANGED <<triplet_count, number_set_size, levels, gc_pc, preset_indices,
                combiners, cur, indices, call, setVars, impVars, thrVars>>

\* the loop test succeeds: delta += 1 and a round over powers_of_two begins
TripletWiden ==
    /\ gen.pc = "while"
    /\ set_too_small(Cardinality(gen.triplet_set), gen.triplet_count)
    /\ gen' = [gen EXCEPT !.pc = "round", !.delta = @ + 1,
                          !.to_visit = powers_of_two]
    /\ TripletsIdle

\* one turn of `for (my_int_t p2 : powers_of_two)'
TripletRound ==
    /\ gen.pc = "round"
    /\ \E p2 \in gen.to_visit :
         gen' = [gen EXCEPT
                   !.triplet_set = @ \cup found(gen.delta, p2),
                   !.to_visit = @ \ {p2},
                   !.pc = IF gen.to_visit = {p2} THEN "while" ELSE "round"]
    /\ TripletsIdle

\* the loop test fails: copy the set into the vector, rotate it, return it
TripletReturn ==
    /\ gen.pc = "while"
    /\ ~set_too_small(Cardinality(gen.triplet_set), gen.triplet_count)
    /\ gen' = [gen EXCEPT !.pc = "returned",
                          !.triplets = rotate(in_set_order(gen.triplet_set))]
    /\ TripletsIdle

NextTriplets == TripletWiden \/ TripletRound \/ TripletReturn

SpecTriplets == InitTriplets /\ [][NextTriplets]_vars

\* everything the rounds 1..d put into the set
found_upto(d) == UNION { found(dd, p2) : dd \in 1..d, p2 \in powers_of_two }

WellFormedTriplet(t) ==
    /\ t.a < t.b /\ t.b < t.c
    /\ t.a + t.b \in PowersOfTwo
    /\ t.a + t.c \in PowersOfTwo
    /\ t.b + t.c \in PowersOfTwo

\* C15: generate_power_triplets widens delta only while its set holds fewer
\* than the requested count c; what it returns holds at least c triplets, no
\* two of them equal, each with a < b < c and with its three pairwise sums
\* powers of two; for c = 0 it returns the empty sequence with delta still 0.
C15_EnoughTriplets ==
    /\ gen.pc = "round" =>
         Cardinality(found_upto(gen.delta - 1)) < gen.triplet_count
    /\ gen.pc = "returned" =>
         /\ gen.delta > 0 =>
              Cardinality(found_upto(gen.delta - 1)) < gen.triplet_count
         /\ Len(gen.triplets) >= gen.triplet_count
         /\ Cardinality(Range(gen.triplets)) = Len(gen.triplets)
         /\ \A n \in DOMAIN gen.triplets : WellFormedTriplet(gen.triplets[n])
         /\ gen.triplet_count = 0 => gen.triplets = <<>> /\ gen.delta = 0

C15_Witness ==
    /\ gen.pc = "returned"
    /\ gen.triplet_count = MaxRequested
    /\ Len(gen.triplets) >= MaxRequested
    /\ gen.delta > 3

-----------------------------------------------------------------------------
(* is_power_of_two, called once on any my_int_t.  `number - 1' is a signed   *)
(* subtraction: on the least my_int_t it overflows, which is undefined; a    *)
(* build either wraps around or, when it traps overflow, stops the program.  *)

MinInt == -Pow2(IntBits - 1)
MaxInt == Pow2(IntBits - 1) - 1

FreeIdle ==
    /\ triplet_count = 0
    /\ number_set_size = 0
    /\ levels = 0
    /\ gc_pc = "idle"
    /\ preset_indices = <<>>
    /\ combiners = <<>>
    /\ cur = 0
    /\ indices = <<>>
    /\ gen = [pc |-> "idle"]
    /\ SetIdle /\ ImpIdle /\ ThrIdle

FreeUnchanged ==
    UNCHANGED <<triplet_count, number_set_size, levels, gc_pc, preset_indices,
                combiners, cur, indices, gen, setVars, impVars, thrVars>>

InitPower ==
    /\ \E number \in MinInt .. MaxInt :
         call = [pc |-> "called", number |-> number, result |-> FALSE]
    /\ FreeIdle

\* the subtraction of `number & (number - 1)' leaves the range of my_int_t
subtraction_overflows(number) == number - 1 < MinInt

\* the call returns: the value of the expression, with wrap-around
PowerReturn ==
    /\ call.pc = "called"
    /\ call' = [call EXCEPT !.pc = "returned",
                            !.result = is_power_of_two(call.number)]
    /\ FreeUnchanged

\* the call ends the program: a build that traps signed overflow
PowerTrap ==
    /\ call.pc = "called"
    /\ subtraction_overflows(call.number)
    /\ call' = [call EXCEPT !.pc = "trapped"]
    /\ FreeUnchanged

NextPower == PowerReturn \/ PowerTrap

SpecPower == InitPower /\ [][NextPower]_vars

\* C16: on every my_int_t n the call returns, and returns true exactly when
\* n = 2^k for some k >= 0; so it returns false on 0 and on every negative n.
C16_AsClaimed ==
    /\ call.pc # "trapped"
    /\ call.pc = "returned" =>
         /\ call.result <=> (call.number \in PowersOfTwo)
         /\ call.number <= 0 => ~call.result

C16_Witness ==
    /\ call.pc = "returned"
    /\ call.number = MinInt
    /\ call.result

-----------------------------------------------------------------------------
(* power_triplet_t::count_overlaps, called once on any two triplets that the *)
(* constructor can build.                                                    *)

MaxMember == 3

TripletMembers == 0 .. MaxMember

InitOverlaps ==
    /\ \E i, j, k, oi, oj, ok \in TripletMembers :
         call = [pc |-> "called", this |-> power_triplet_t(i, j, k),
                 other |-> power_triplet_t(oi, oj, ok), result |-> 0]
    /\ FreeIdle

\* my_int_t(x == y)
as_int(bool) == IF bool THEN 1 ELSE 0

count_overlaps(this, other) ==
    LET count ==
          as_int(this.a = other.a) + as_int(this.a = other.b) +
          as_int(this.a = other.c) + as_int(this.b = other.a) +
          as_int(this.b = other.b) + as_int(this.b = other.c) +
          as_int(this.c = other.a) + as_int(this.c = other.b) +
          as_int(this.c = other.c)
    IN  IF count = 3 THEN 0 ELSE count

OverlapsReturn ==
    /\ call.pc = "called"
    /\ call' = [call EXCEPT !.pc = "returned",
                            !.result = count_overlaps(call.this, call.other)]
    /\ FreeUnchanged

NextOverlaps == OverlapsReturn

SpecOverlaps == InitOverlaps /\ [][NextOverlaps]_vars

Members(t) == {t.a, t.b, t.c}

\* C17: count_overlaps returns 0 for a triplet compared with itself, and for
\* two different triplets the number of values they share, which is 0, 1 or 2.
C17_AsClaimed ==
    call.pc = "returned" =>
        IF call.this = call.other
        THEN call.result = 0
        ELSE /\ call.result = Cardinality(Members(call.this)
                                            \cap Members(call.other))
             /\ call.result \in 0 .. 2

C17_Witness ==
    /\ call.pc = "returned"
    /\ call.this = call.other
    /\ call.this.a = call.this.c
    /\ call.result = 9

-----------------------------------------------------------------------------
(* The reporter of SpecThreads: what print_progress reads.                   *)

\* C20: whatever the interleaving of the reporter with the workers, every
\* index i for which print_progress reads combiners[i], in the loop and in
\* the final print_progress(100), is smaller than the number of shards.
C20_AsClaimed == \A i \in rep.read : i < Len(shards)

\* C20 witness: the reporter has made its final print_progress(100) call,
\* after every worker left its loop, and read a shard that does not exist.
C20_Witness ==
    /\ rep.pc = "exited"
    /\ \A w \in DOMAIN workers : workers[w].pc = "exited"
    /\ next_to_do = Len(shards) + worker_count(hw)
    /\ \E i \in rep.read : i >= Len(shards)

=============================================================================
